---- MODULE Spec2Model ----
(***************************************************************************)
(* SkipGenie (src/js/app.js): attendance math, the exclusion ledger, the   *)
(* projection engine, and the home page (loadHome, today statuses, the     *)
(* lecture modal, refresh), as a state machine.                            *)
(*                                                                         *)
(* Specifications.                                                         *)
(*   - SpecInfo: attendanceInfo alone, over every pair of counts.          *)
(*   - Spec: the boot loadHome, the ledger and the projection, in three    *)
(*     time zones, with the clock advancing.                               *)
(*   - SpecToday: the boot loadHome and the today-status resolution it     *)
(*     starts, every fetch completing in any order, resolved or failed.    *)
(*   - SpecRefresh: the home page with refreshHome, the lecture modal and  *)
(*     a projection, every call in flight completing in any order.         *)
(*   Under SpecToday and SpecRefresh the clock stands still: a page load   *)
(*   takes no minutes of the model's clock.                                *)
(*                                                                         *)
(* Representation.                                                         *)
(*   - An instant (a JS Date) is its number of minutes since the epoch,    *)
(*     UTC.  The local zone is a fixed offset tz (minutes east of UTC); no *)
(*     daylight-saving change happens inside the modelled days.            *)
(*   - A calendar date is its day number since 1970-01-01 (a Thursday).    *)
(*   - A string that may be empty is a tuple: "" is <<>>, the date string  *)
(*     'YYYY-MM-DD' of day d is <<d>>, the <option> value of courseId n is *)
(*     <<n>>.  A nullable number is a tuple too: null is <<>>, n is <<n>>. *)
(*   - A percentage (a JS double) is the exact rational it approximates,   *)
(*     kept in lowest terms.  For totals below 1500 the double arithmetic  *)
(*     of attendanceInfo classifies and rounds exactly as the rational     *)
(*     arithmetic does.                                                    *)
(***************************************************************************)
EXTENDS Integers, Sequences, FiniteSets, TLC

\* ------------------------------------------------------------- bounds
\* Largest lecture total fed to attendanceInfo under SpecInfo.
MaxTotal == 30
\* Largest number of entries the ledger is let grow to.
MaxLedger == 2
\* Number of clock ticks (half days) the model lets pass.
MaxTicks == 1
\* The day the model starts on: 3 is Sunday 1970-01-04.
StartDay == 3
\* Number of refreshHome calls the model lets happen.
MaxRefresh == 1

DayMinutes == 24 * 60
TickMinutes == 12 * 60
\* Local UTC offsets, in minutes east of UTC: New York, UTC, India.
TZOffsets == {0 - 300, 0, 330}

VARIABLES
    tz,          \* the browser's UTC offset (environment, fixed)
    now,         \* the current instant
    ticks,       \* clock ticks elapsed (bounds the clock)
    homeLoads,   \* the loadHome calls awaiting their fetches
    courses,     \* state.courses
    coursesGen,  \* (history) the refresh count when state.courses was requested
    cards,       \* #coursesGrid, as last rendered
    ttSchedule,  \* state.ttSchedule: <<>> (null) or <<schedule>>
    statusLoads, \* the loadTodayStatuses calls and their positions
    lectureCache,\* state.lectureCache
    modalLoads,  \* the openLectureModal calls awaiting their fetch
    modal,       \* #lectureModal: <<>> (closed) or <<key, body>>
    refreshes,   \* number of refreshHome calls made so far
    projGen,     \* (history) coursesGen of the roster projView was computed from
    exclOptions, \* the course <option> values of #exclSubject, in order
    exclusions,  \* the ledger: exclusions
    projView,    \* #projResultsWrap: <<>> (placeholder) or <<rendered>>
    toastMsg,    \* the toast the last handler raised, "" if none
    lastCall,    \* the last step: its name, then removeExclusion's index,
                 \* runProjection's #projAssume value, or refreshHome's
                 \* "start" | "done" and number
    infoIn,      \* SpecInfo: the arguments given to attendanceInfo
    infoOut      \* SpecInfo: <<>> or <<its result>>

\* What the ledger and projection handlers never touch.
homeVars == <<homeLoads, coursesGen, cards, ttSchedule, statusLoads,
              lectureCache, modalLoads, modal, refreshes>>

vars == <<tz, now, ticks, homeLoads, courses, coursesGen, cards, ttSchedule,
          statusLoads, lectureCache, modalLoads, modal, refreshes, exclOptions, exclusions,
          projView, projGen, toastMsg, lastCall, infoIn, infoOut>>

\* ------------------------------------------------------------ numbers
RECURSIVE GCD(_, _)
GCD(a, b) == IF b = 0 THEN a ELSE GCD(b, a % b)

\* The rational n/d (d > 0, n >= 0) in lowest terms.
Rat(n, d) ==
    LET g == GCD(n, d) IN [num |-> n \div g, den |-> d \div g]

\* Comparisons of a rational with an integer.
RatLt(r, k) == r.num < k * r.den
RatGe(r, k) == r.num >= k * r.den

\* ------------------------------------------------- attendanceInfo
\* status of a percentage
statusOf_strict75(pct) ==
    IF RatGe(pct, 65) /\ ~(pct.num > 75 * pct.den) THEN "warn"
    ELSE IF RatLt(pct, 65) THEN "danger"
    ELSE "safe"

statusOf(pct) ==
    IF RatLt(pct, 75) /\ RatGe(pct, 65) THEN "warn"
    ELSE IF RatLt(pct, 65) THEN "danger"
    ELSE "safe"

\* Math.floor(present / 0.75 - total): present / 0.75 is 4*present/3, and
\* \div rounds toward minus infinity as Math.floor does.
canMissOf_ceil(pct, present, total) ==
    IF RatGe(pct, 75) THEN ((4 * present - 3 * total) + 2) \div 3 ELSE 0

canMissOf(pct, present, total) ==
    IF RatGe(pct, 75) THEN (4 * present - 3 * total) \div 3 ELSE 0

\* Math.ceil(3 * total - 4 * present): the argument is an integer.
mustAttendOf_quarter(pct, present, total) ==
    IF RatLt(pct, 75) THEN ((3 * total - 4 * present) + 3) \div 4 ELSE 0

mustAttendOf(pct, present, total) ==
    IF RatLt(pct, 75) THEN 3 * total - 4 * present ELSE 0

attendanceInfo(present, total) ==
    IF total = 0
    THEN [pct |-> Rat(0, 1), status |-> "safe", canMiss |-> 0, mustAttend |-> 0]
    ELSE LET pct == Rat(present * 100, total) IN
         [pct        |-> pct,
          status     |-> statusOf(pct),
          canMiss    |-> canMissOf(pct, present, total),
          mustAttend |-> mustAttendOf(pct, present, total)]

\* ------------------------------------------------------ JS Date
\* getFullYear/getMonth/getDate of an instant: its local calendar day.
LocalDay(t) == (t + tz) \div DayMinutes

\* Date.prototype.getDay: 0 is Sunday; day 0 (1970-01-01) is a Thursday.
getDay(t) == (LocalDay(t) + 4) % 7

\* new Date(y, m - 1, d), and new Date(<toDateString text>): local midnight.
LocalMidnight(day) == day * DayMinutes - tz

\* new Date('YYYY-MM-DD'): a date-only ISO string is midnight UTC.
ParseDateOnly(s) == s[1] * DayMinutes

\* new Date(new Date().toDateString()): local midnight of the current day.
StartOfToday == LocalMidnight(LocalDay(now))

\* d.setDate(d.getDate() + 1)
NextDay(t) == t + DayMinutes

fmtDate(t) == <<LocalDay(t)>>

\* parseInt of an <option> value, the decimal text of a courseId.
ParseInt(s) == <<s[1]>>

\* JS truthiness of a nullable number: null and 0 are falsy.
Truthy(n) == n # <<>> /\ n # <<0>>

\* ------------------------------------------------------- roster
Comp(id, present, total) ==
    [courseCompId |-> id, presentLecture |-> present, totalLecture |-> total]

\* A course code is its text as a list of pieces, " " a run of blanks.
Course(id, code, name, comps) ==
    [courseId |-> id, courseCode |-> code, courseName |-> name,
     studentCourseCompDetails |-> comps]

\* What getRegisteredCourses may return.
RosterA ==
    << Course(0, <<"MA101", " ">>, "Maths",   << Comp(10, 6, 8) >>),
       Course(1, <<"PH102">>,      "Physics", << Comp(11, 2, 3), Comp(12, 1, 1) >>) >>

RosterB ==
    << Course(2, <<"SE100">>, "Seminar", << >>),
       Course(1, <<"PH102">>, "Physics", << Comp(11, 0, 0) >>) >>

Rosters == {RosterA, RosterB}

\* populateProjectionSubjects: one <option> per course after "Full Day Leave".
SubjectOptions(cs) ==
    [i \in 1..Len(cs) |-> [value |-> <<cs[i].courseId>>, text |-> cs[i].courseName]]

\* ------------------------------------------------------- inputs
\* What #exclDate can hold: nothing, yesterday, the start day, the day after.
ExclDateInputs ==
    {<< >>, <<StartDay - 1>>, <<StartDay>>, <<StartDay + 1>>}
\* What #projDate can hold: nothing, the start day, the day after, and the
\* day five days after the start day.
TargetDateInputs ==
    {<< >>, <<StartDay>>, <<StartDay + 1>>, <<StartDay + 5>>}
AssumeInputs == {"none", "all"}

\* ------------------------------------------------------- ledger
\* exclusions.find(e => e.date === date && e.courseId === courseId)
exists_dateOnly(ledger, date, courseId) ==
    \E i \in 1..Len(ledger) : ledger[i].date = date

exists(ledger, date, courseId) ==
    \E i \in 1..Len(ledger) :
        ledger[i].date = date /\ ledger[i].courseId = courseId

\* exclusions.push(entry)
push(ledger, entry) == Append(ledger, entry)

\* Array.prototype.splice(i, 1) on a list: a negative start counts from the
\* end, a start past the end removes nothing.
splice1_next(list, i) ==
    LET len   == Len(list)
        start == IF i + 1 < 0 THEN (IF len + i + 1 < 0 THEN 0 ELSE len + i + 1)
                 ELSE (IF i + 1 > len THEN len ELSE i + 1)
        count == IF len - start < 1 THEN len - start ELSE 1
    IN  SubSeq(list, 1, start) \o SubSeq(list, start + count + 1, len)

splice1(list, i) ==
    LET len   == Len(list)
        start == IF i < 0 THEN (IF len + i < 0 THEN 0 ELSE len + i)
                 ELSE (IF i > len THEN len ELSE i)
        count == IF len - start < 1 THEN len - start ELSE 1
    IN  SubSeq(list, 1, start) \o SubSeq(list, start + count + 1, len)

\* The selected <option> of #exclSubject: 0 is "Full Day Leave".
SelValue(opt) == IF opt = 0 THEN << >> ELSE exclOptions[opt].value
SelText(opt)  == IF opt = 0 THEN "Full Day Leave" ELSE exclOptions[opt].text

\* window.addExclusion, with #exclDate holding date and option opt selected.
addExclusion(date, opt) ==
    LET courseId   == IF SelValue(opt) # << >> THEN ParseInt(SelValue(opt)) ELSE << >>
        courseName == IF SelValue(opt) # << >> THEN SelText(opt) ELSE "Full Day"
    IN
    /\ lastCall' = <<"addExclusion">>
    /\ IF date = << >>
       THEN /\ toastMsg' = "Please pick a date"
            /\ UNCHANGED exclusions
       ELSE IF ParseDateOnly(date) <= StartOfToday
       THEN /\ toastMsg' = "Exclusion date must be in the future"
            /\ UNCHANGED exclusions
       ELSE IF exists(exclusions, date, courseId)
       THEN /\ toastMsg' = "Already added!"
            /\ UNCHANGED exclusions
       ELSE /\ Len(exclusions) < MaxLedger     \* the model's bound on the ledger
            /\ exclusions' = push(exclusions,
                   [date |-> date, courseId |-> courseId, courseName |-> courseName])
            /\ toastMsg' = ""
    /\ UNCHANGED <<tz, now, ticks, homeVars, courses, exclOptions, projView,
                   projGen, infoIn, infoOut>>

\* renderExclusions: the tags of #exclusionList, each with the index its
\* remove button passes to removeExclusion.
renderExclusions(ledger) ==
    [i \in 1..Len(ledger) |->
        [text |-> <<ledger[i].date, ledger[i].courseName>>, remove |-> i - 1]]

\* window.removeExclusion(i)
removeExclusion(i) ==
    /\ lastCall' = <<"removeExclusion", i>>
    /\ exclusions' = splice1(exclusions, i)
    /\ toastMsg' = ""
    /\ UNCHANGED <<tz, now, ticks, homeVars, courses, exclOptions, projView,
                   projGen, infoIn, infoOut>>

\* --------------------------------------------------- projection
\* The workdays loop: d runs from tomorrow's local midnight while d <= endDate.
RECURSIVE CountWorkdays(_, _)
CountWorkdays(d, endDate) ==
    IF d <= endDate
    THEN (IF getDay(d) # 0 /\ getDay(d) # 6 THEN 1 ELSE 0)
         + CountWorkdays(NextDay(d), endDate)
    ELSE 0

\* exclFull: dates of the entries whose courseId is falsy.
ExclFull(ledger) ==
    {ledger[i].date : i \in {j \in 1..Len(ledger) : ~Truthy(ledger[j].courseId)}}

\* exclCourse[id] || new Set(): dates of the entries with that truthy courseId.
ExclCourse(ledger, id) ==
    {ledger[i].date : i \in {j \in 1..Len(ledger) :
        Truthy(ledger[j].courseId) /\ ledger[j].courseId = <<id>>}}

\* The per-course walk: <<addPresent, addTotal>> over iter .. endDate.
RECURSIVE Walk(_, _, _, _)
Walk(iter, endDate, exclFull, courseExclDates) ==
    IF iter <= endDate
    THEN LET rest    == Walk(NextDay(iter), endDate, exclFull, courseExclDates)
             ds      == fmtDate(iter)
             skipped == ds \in exclFull \/ ds \in courseExclDates
         IN  IF getDay(iter) # 0 /\ getDay(iter) # 6
             THEN <<rest[1] + (IF skipped THEN 0 ELSE 1), rest[2] + 1>>
             ELSE rest
    ELSE <<0, 0>>

\* The body of courses.map(c => ...) for a course that has a component.
ProjectCourse_walkAlways(c, assume, today, endDate, ledger) ==
    LET comp       == c.studentCourseCompDetails[1]
        curPresent == comp.presentLecture
        curTotal   == comp.totalLecture
        add        == Walk(NextDay(today), endDate, ExclFull(ledger),
                           ExclCourse(ledger, c.courseId))
    IN  [course |-> c, curPresent |-> curPresent, curTotal |-> curTotal,
         curPct |-> attendanceInfo(curPresent, curTotal).pct,
         projPresent |-> curPresent + add[1], projTotal |-> curTotal + add[2]]

ProjectCourse(c, assume, today, endDate, ledger) ==
    LET comp       == c.studentCourseCompDetails[1]
        curPresent == comp.presentLecture
        curTotal   == comp.totalLecture
        curPct     == attendanceInfo(curPresent, curTotal).pct
        add        == Walk(NextDay(today), endDate, ExclFull(ledger),
                           ExclCourse(ledger, c.courseId))
    IN  IF assume = "none"
        THEN [course |-> c, curPresent |-> curPresent, curTotal |-> curTotal,
              curPct |-> curPct,
              projPresent |-> curPresent, projTotal |-> curTotal]
        ELSE [course |-> c, curPresent |-> curPresent, curTotal |-> curTotal,
              curPct |-> curPct,
              projPresent |-> curPresent + add[1], projTotal |-> curTotal + add[2]]

\* courses.map(...).filter(Boolean): courses with no component are dropped.
RECURSIVE ProjectAll(_, _, _, _, _)
ProjectAll(cs, assume, today, endDate, ledger) ==
    IF cs = << >> THEN << >>
    ELSE LET c    == Head(cs)
             rest == ProjectAll(Tail(cs), assume, today, endDate, ledger)
         IN  IF c.studentCourseCompDetails = << >>
             THEN rest
             ELSE <<ProjectCourse(c, assume, today, endDate, ledger)>> \o rest

\* projPct - r.curPct, in lowest terms (the numerator carries the sign).
RatDiff(a, b) ==
    LET n == a.num * b.den - b.num * a.den
        d == a.den * b.den
        g == GCD(IF n < 0 THEN 0 - n ELSE n, d)
    IN  [num |-> n \div g, den |-> d \div g]

\* One row of renderProjectionResults.
ProjectionRow(r) ==
    LET info  == attendanceInfo(r.projPresent, r.projTotal)
        delta == RatDiff(info.pct, r.curPct)
    IN  [name |-> r.course.courseName, curPct |-> r.curPct,
         projPct |-> info.pct, projStatus |-> info.status, delta |-> delta,
         deltaClass |-> IF 10 * delta.num > delta.den THEN "up"
                        ELSE IF 10 * delta.num < 0 - delta.den THEN "down"
                        ELSE "same",
         must |-> info.mustAttend]

\* dangerItems: the rows whose projected status is not safe, in order.
RECURSIVE DangerItems(_)
DangerItems(rows) ==
    IF rows = << >> THEN << >>
    ELSE LET rest == DangerItems(Tail(rows)) IN
         IF Head(rows).projStatus # "safe"
         THEN <<[name |-> Head(rows).name, pct |-> Head(rows).projPct,
                 must |-> Head(rows).must]>> \o rest
         ELSE rest

\* renderProjectionResults(results, targetDate, workdays): what the results
\* panel shows (percentages unrounded).
renderProjectionResults_allRows(results, targetDate, workdays) ==
    LET rows == [i \in 1..Len(results) |-> ProjectionRow(results[i])] IN
    [results |-> results, rows |-> rows,
     dangerItems |-> [i \in 1..Len(rows) |->
         [name |-> rows[i].name, pct |-> rows[i].projPct, must |-> rows[i].must]],
     targetDate |-> targetDate, workdays |-> workdays]

renderProjectionResults(results, targetDate, workdays) ==
    LET rows == [i \in 1..Len(results) |-> ProjectionRow(results[i])] IN
    [results |-> results, rows |-> rows, dangerItems |-> DangerItems(rows),
     targetDate |-> targetDate, workdays |-> workdays]

\* window.runProjection, with #projDate holding targetDate and #projAssume
\* holding assume.
runProjection(targetDate, assume) ==
    /\ lastCall' = <<"runProjection", assume>>
    /\ IF courses = << >>
       THEN /\ toastMsg' = "Load your attendance first (go to Home tab)"
            /\ UNCHANGED <<projView, projGen>>
       ELSE IF targetDate = << >>
       THEN /\ toastMsg' = "Please select a target date"
            /\ UNCHANGED <<projView, projGen>>
       ELSE LET today   == StartOfToday
                endDate == ParseDateOnly(targetDate)
            IN  IF endDate <= today
                THEN /\ toastMsg' = "Target date must be in the future"
                     /\ UNCHANGED <<projView, projGen>>
                ELSE /\ toastMsg' = ""
                     /\ projGen' = coursesGen
                     /\ projView' = << renderProjectionResults(
                            ProjectAll(courses, assume, today, endDate, exclusions),
                            targetDate,
                            CountWorkdays(NextDay(today), endDate)) >>
    /\ UNCHANGED <<tz, now, ticks, homeVars, courses, exclOptions, exclusions,
                   infoIn, infoOut>>

\* ------------------------------------------------------- helpers
\* String.prototype.trim on a course code: blanks at both ends are dropped.
RECURSIVE trimStart(_)
trimStart(code) ==
    IF code # << >> /\ Head(code) = " " THEN trimStart(Tail(code)) ELSE code

RECURSIVE trimEnd(_)
trimEnd(code) ==
    IF code # << >> /\ code[Len(code)] = " "
    THEN trimEnd(SubSeq(code, 1, Len(code) - 1))
    ELSE code

trim(code) == trimEnd(trimStart(code))

\* parseFlexDate on the day-first texts: "" is <<>>, 'DD/MM/YYYY' of day d is
\* <<d>>, 'DD/MM/YYYY HH:mm' is <<d, minutes after midnight>>.  The result is
\* null (<<>>) or <<instant>>: local midnight of the day, plus setHours.
parseFlexDate(str) ==
    IF str = << >> THEN << >>
    ELSE IF Len(str) = 1 THEN << LocalMidnight(str[1]) >>
    ELSE << LocalMidnight(str[1]) + str[2] >>

\* isSameDay(a, b) on nullable instants: equal local calendar days.
isSameDay(a, b) ==
    a # << >> /\ b # << >> /\ LocalDay(a[1]) = LocalDay(b[1])

\* Array.prototype.find, given the set of indexes whose element passes the
\* test: <<the first element that passes>>, or <<>> (undefined).
find(list, hits) ==
    IF hits = {} THEN << >>
    ELSE << list[CHOOSE i \in hits : \A k \in hits : i <= k] >>

\* ----------------------------------------------- loadTodayStatuses
\* todayClasses: the non-holiday entries of the schedule that start today.
todayClassesOf(schedule, today) ==
    SelectSeq(schedule, LAMBDA s :
        s.type # "HOLIDAY" /\ isSameDay(parseFlexDate(s.start), <<today>>))

\* A per-course callback of courses.map(async course => ...): status is
\* "RUNNING" while it awaits a fetch, "NONE" once it has returned without an
\* entry, and otherwise the entry it wrote to statusMap; fetching is the
\* index of the component whose fetch it awaits (0: none); fetched lists the
\* courseCompIds it has requested so far and got what came back for them, in
\* order (<<response>>, or <<>> for a fetch that threw).
Task(status, fetching, fetched, got) ==
    [status |-> status, fetching |-> fetching, fetched |-> fetched, got |-> got]

\* The for loop over the components, entered at component k.
scanFrom(course, k, fetched, got) ==
    IF k > Len(course.studentCourseCompDetails)
    THEN Task("PENDING", 0, fetched, got)
    ELSE Task("RUNNING", k,
              Append(fetched, course.studentCourseCompDetails[k].courseCompId),
              got)

\* The callback up to its first await.
startTask(course, todayClasses, today) ==
    LET sched == find(todayClasses, {k \in 1..Len(todayClasses) :
                     trim(todayClasses[k].courseCode) = trim(course.courseCode)})
    IN  IF sched = << >> THEN Task("NONE", 0, << >>, << >>)
        ELSE LET endTime == parseFlexDate(sched[1].end) IN
             IF endTime # << >> /\ endTime[1] > today
             THEN Task("SCHEDULED", 0, << >>, << >>)
             ELSE scanFrom(course, 1, << >>, << >>)

\* The callback from the return of a fetch to its next await: data is
\* <<the response>>, or <<>> when the fetch threw (catch { }).
afterLecture_lastWins(course, task, data, today) ==
    LET todayLec == IF data = << >> THEN << >>
                    ELSE find(data[1].lectureList,
                             {k \in 1..Len(data[1].lectureList) :
                                isSameDay(parseFlexDate(
                                    data[1].lectureList[k].planLecDate), <<today>>)})
        got      == Append(task.got, data)
        next     == scanFrom(course, task.fetching + 1, task.fetched, got)
    IN  IF todayLec # << >> /\ todayLec[1].attendance \in {"PRESENT", "ABSENT"}
        THEN IF next.status = "RUNNING" THEN next
             ELSE Task(todayLec[1].attendance, 0, task.fetched, got)
        ELSE next

afterLecture(course, task, data, today) ==
    LET todayLec == IF data = << >> THEN << >>
                    ELSE find(data[1].lectureList,
                             {k \in 1..Len(data[1].lectureList) :
                                isSameDay(parseFlexDate(
                                    data[1].lectureList[k].planLecDate), <<today>>)})
        got      == Append(task.got, data)
    IN  IF todayLec # << >> /\ todayLec[1].attendance \in {"PRESENT", "ABSENT"}
        THEN Task(todayLec[1].attendance, 0, task.fetched, got)
        ELSE scanFrom(course, task.fetching + 1, task.fetched, got)

\* statusMap: the entries the callbacks have written, as <<courseId, status>>.
statusMapOf(cs, tasks) ==
    {<<cs[i].courseId, tasks[i].status>> :
        i \in {k \in 1..Len(cs) : tasks[k].status \notin {"RUNNING", "NONE"}}}

\* await Promise.all(...): every callback has returned.
allSettled_any(tasks) == \E i \in 1..Len(tasks) : tasks[i].status # "RUNNING"

allSettled(tasks) == \A i \in 1..Len(tasks) : tasks[i].status # "RUNNING"

\* renderCourseCards(courses, todayMap): the grid, with (history) gen, the
\* refresh count when the data was requested, and at, the refresh count when
\* the grid was written.
renderCourseCards(cs, todayMap, gen, at) ==
    [kind |-> IF cs = << >> THEN "empty" ELSE "cards",
     courses |-> cs, todayMap |-> todayMap, gen |-> gen, at |-> at]

\* A loadTodayStatuses(courses) call: phase is "schedule" while it awaits
\* getWeeklySchedule, "tasks" while it awaits Promise.all, "returned" after;
\* asked tells whether it requested the schedule, schedule is <<>> or <<the
\* schedule it received>>, rendered tells whether it reached
\* renderCourseCards(courses, statusMap).
StatusLoad(gen, today, cs, phase, asked, schedule, tasks, rendered) ==
    [gen |-> gen, today |-> today, courses |-> cs, phase |-> phase,
     asked |-> asked, schedule |-> schedule, tasks |-> tasks,
     rendered |-> rendered]

\* loadTodayStatuses(courses) up to its first await.
startStatusLoad_saturdayOnly(cs, gen) ==
    IF getDay(now) = 6
    THEN StatusLoad(gen, now, cs, "returned", FALSE, << >>, << >>, FALSE)
    ELSE StatusLoad(gen, now, cs, "schedule", TRUE, << >>, << >>, FALSE)

startStatusLoad(cs, gen) ==
    IF getDay(now) = 0 \/ getDay(now) = 6
    THEN StatusLoad(gen, now, cs, "returned", FALSE, << >>, << >>, FALSE)
    ELSE StatusLoad(gen, now, cs, "schedule", TRUE, << >>, << >>, FALSE)

\* The call once its callbacks stand at tasks: it goes on to render when
\* Promise.all has resolved.
withTasks(call, tasks) ==
    IF allSettled(tasks)
    THEN [call EXCEPT !.phase = "returned", !.tasks = tasks, !.rendered = TRUE]
    ELSE [call EXCEPT !.phase = "tasks", !.tasks = tasks]

\* The step of a loadTodayStatuses call from call to next.
statusStep(call, next) ==
    /\ statusLoads' = (statusLoads \ {call}) \cup {next}
    /\ cards' = IF next.rendered
                THEN renderCourseCards(next.courses,
                         statusMapOf(next.courses, next.tasks), next.gen, refreshes)
                ELSE cards
    /\ toastMsg' = ""
    /\ lastCall' = <<"loadTodayStatuses">>
    /\ UNCHANGED <<tz, now, ticks, homeLoads, courses, coursesGen, lectureCache,
                   modalLoads, modal, refreshes, exclOptions, exclusions,
                   projView, projGen, infoIn, infoOut>>

\* getWeeklySchedule returned schedule.
scheduleResolved(call, schedule) ==
    /\ call \in statusLoads
    /\ call.phase = "schedule"
    /\ ttSchedule' = <<schedule>>
    /\ LET todayClasses == todayClassesOf(schedule, call.today)
           got          == [call EXCEPT !.schedule = <<schedule>>]
       IN  IF todayClasses = << >>
           THEN statusStep(call, [got EXCEPT !.phase = "returned"])
           ELSE statusStep(call, withTasks(got,
                    [i \in 1..Len(call.courses) |->
                        startTask(call.courses[i], todayClasses, call.today)]))

\* getWeeklySchedule threw: the outer catch { }.
scheduleRejected(call) ==
    /\ call \in statusLoads
    /\ call.phase = "schedule"
    /\ UNCHANGED ttSchedule
    /\ statusStep(call, [call EXCEPT !.phase = "returned"])

\* getLectureWiseAttendance of callback i settled: data is <<response>>, or
\* <<>> when it threw.
lectureSettled(call, i, data) ==
    /\ call \in statusLoads
    /\ call.phase = "tasks"
    /\ i \in 1..Len(call.tasks)
    /\ call.tasks[i].status = "RUNNING"
    /\ UNCHANGED ttSchedule
    /\ statusStep(call, withTasks(call,
            [call.tasks EXCEPT ![i] =
                afterLecture(call.courses[i], call.tasks[i], data, call.today)]))

\* ------------------------------------------------------- loading
\* A loadHome call awaiting Promise.all: gen is the refresh count when it
\* was made, refresh tells whether refreshHome awaits it.
HomeLoad(gen, refresh) == [gen |-> gen, refresh |-> refresh]

\* The end of a loadHome call: when refreshHome awaits it, refreshHome goes
\* on to toast 'Data refreshed!'.
homeLoadEnds(call, ownToast) ==
    /\ call \in homeLoads
    /\ homeLoads' = homeLoads \ {call}
    /\ IF call.refresh
       THEN /\ toastMsg' = "Data refreshed!"
            /\ lastCall' = <<"refreshHome", "done", call.gen>>
       ELSE /\ toastMsg' = ownToast
            /\ lastCall' = <<"loadHome">>

\* loadHome, resolved: the roster fetch returned roster.
loadHomeResolved(call, roster) ==
    /\ homeLoadEnds(call, "")
    /\ courses' = roster
    /\ coursesGen' = call.gen
    /\ cards' = renderCourseCards(roster, {}, call.gen, refreshes)
    /\ statusLoads' = statusLoads \cup {startStatusLoad(roster, call.gen)}
    /\ exclOptions' = SubjectOptions(roster)
    /\ UNCHANGED <<tz, now, ticks, ttSchedule, lectureCache, modalLoads, modal,
                   refreshes, exclusions, projView, projGen, infoIn, infoOut>>

\* loadHome, rejected: a fetch failed; the grid shows 'Failed to load'.
loadHomeRejected(call) ==
    /\ homeLoadEnds(call, "API error")
    /\ cards' = [kind |-> "failed", courses |-> << >>, todayMap |-> {},
                 gen |-> call.gen, at |-> refreshes]
    /\ UNCHANGED <<tz, now, ticks, courses, coursesGen, ttSchedule, statusLoads,
                   lectureCache, modalLoads, modal, refreshes, exclOptions,
                   exclusions, projView, projGen, infoIn, infoOut>>

\* --------------------------------------------------- lecture modal
\* A cache entry: state.lectureCache[key] = data, with (history) gen, the
\* refresh count when data was requested.
CacheEntry(key, data, gen) == [key |-> key, data |-> data, gen |-> gen]

\* state.lectureCache[key] = data
cachePut(cache, key, data, gen) ==
    {e \in cache : e.key # key} \cup {CacheEntry(key, data, gen)}

\* The modal: the course it was opened for and what its body shows
\* ("loading", "error", or "data" of the key in shown).
Modal(title, body, shown) == [title |-> title, body |-> body, shown |-> shown]

\* window.openLectureModal(courseName, studentId, courseId, courseCompId), up
\* to its await: a cached history is shown at once, otherwise the fetch is
\* sent.  (One call per key and refresh count is followed at a time.)
openLectureModal(courseId, courseCompId) ==
    LET key == <<courseId, courseCompId>>
        hit == {e \in lectureCache : e.key = key}
    IN
    /\ IF hit # {}
       THEN /\ lectureCache' = lectureCache
            /\ modal' = << Modal(key, "data", key) >>
            /\ UNCHANGED modalLoads
       ELSE /\ [key |-> key, gen |-> refreshes] \notin modalLoads
            /\ modalLoads' = modalLoads \cup {[key |-> key, gen |-> refreshes]}
            /\ modal' = << Modal(key, "loading", key) >>
            /\ UNCHANGED lectureCache
    /\ toastMsg' = ""
    /\ lastCall' = <<"openLectureModal">>
    /\ UNCHANGED <<tz, now, ticks, homeLoads, courses, coursesGen, cards,
                   ttSchedule, statusLoads, refreshes, exclOptions, exclusions,
                   projView, projGen, infoIn, infoOut>>

\* openLectureModal after its await: the fetch returned data.
modalResolved(call, data) ==
    /\ call \in modalLoads
    /\ modalLoads' = modalLoads \ {call}
    /\ lectureCache' = cachePut(lectureCache, call.key, data, call.gen)
    /\ modal' = << Modal(modal[1].title, "data", call.key) >>
    /\ toastMsg' = ""
    /\ lastCall' = <<"openLectureModal">>
    /\ UNCHANGED <<tz, now, ticks, homeLoads, courses, coursesGen, cards,
                   ttSchedule, statusLoads, refreshes, exclOptions, exclusions,
                   projView, projGen, infoIn, infoOut>>

\* openLectureModal after its await: the fetch threw.
modalRejected(call) ==
    /\ call \in modalLoads
    /\ modalLoads' = modalLoads \ {call}
    /\ modal' = << Modal(modal[1].title, "error", call.key) >>
    /\ toastMsg' = ""
    /\ lastCall' = <<"openLectureModal">>
    /\ UNCHANGED <<tz, now, ticks, homeLoads, courses, coursesGen, cards,
                   ttSchedule, statusLoads, lectureCache, refreshes, exclOptions,
                   exclusions, projView, projGen, infoIn, infoOut>>

\* ------------------------------------------------------- refresh
\* window.refreshHome, up to await loadHome(): the cached data is dropped and
\* loadHome is called, which finds nothing cached and sends its fetches.
refreshHome ==
    /\ refreshes < MaxRefresh
    /\ refreshes' = refreshes + 1
    /\ courses' = << >>
    /\ coursesGen' = refreshes + 1
    /\ lectureCache' = {}
    /\ homeLoads' = homeLoads \cup {HomeLoad(refreshes + 1, TRUE)}
    /\ toastMsg' = ""
    /\ lastCall' = <<"refreshHome", "start", refreshes + 1>>
    /\ UNCHANGED <<tz, now, ticks, cards, ttSchedule, statusLoads, modalLoads,
                   modal, exclOptions, exclusions, projView, projGen, infoIn,
                   infoOut>>

\* Half a day passes; a toast is gone after 3.5 s (toast, line 97).
Tick ==
    /\ ticks < MaxTicks
    /\ ticks' = ticks + 1
    /\ now' = now + TickMinutes
    /\ toastMsg' = ""
    /\ lastCall' = <<"tick">>
    /\ UNCHANGED <<tz, homeVars, courses, exclOptions, exclusions, projView,
                   projGen, infoIn, infoOut>>

\* ------------------------------------------------ specifications
NoCall == <<"boot">>

\* The page once app.js has run: nothing cached, the skeleton grid, the
\* boot loadHome() awaiting its fetches.
Loaded ==
    /\ ticks = 0
    /\ homeLoads = {HomeLoad(0, FALSE)}
    /\ courses = << >>
    /\ coursesGen = 0
    /\ cards = [kind |-> "skeleton", courses |-> << >>, todayMap |-> {},
                gen |-> 0, at |-> 0]
    /\ ttSchedule = << >>
    /\ statusLoads = {}
    /\ lectureCache = {}
    /\ modalLoads = {}
    /\ modal = << >>
    /\ refreshes = 0
    /\ exclOptions = << >>
    /\ exclusions = << >>
    /\ projView = << >>
    /\ projGen = 0
    /\ toastMsg = ""
    /\ lastCall = NoCall

Init ==
    /\ tz \in TZOffsets
    /\ now = StartDay * DayMinutes + TickMinutes
    /\ Loaded
    /\ infoIn = <<0, 0>>
    /\ infoOut = << >>

DoLoadHomeResolved ==
    \E call \in homeLoads : \E roster \in Rosters : loadHomeResolved(call, roster)
DoLoadHomeRejected == \E call \in homeLoads : loadHomeRejected(call)
DoAddExclusion ==
    \E date \in ExclDateInputs : \E opt \in 0..Len(exclOptions) : addExclusion(date, opt)
DoRemoveExclusion == \E i \in (0 - 1)..Len(exclusions) : removeExclusion(i)
DoRunProjection ==
    \E targetDate \in TargetDateInputs : \E assume \in AssumeInputs :
        runProjection(targetDate, assume)

Next ==
    \/ DoLoadHomeResolved
    \/ DoLoadHomeRejected
    \/ DoAddExclusion
    \/ DoRemoveExclusion
    \/ DoRunProjection
    \/ Tick

Spec == Init /\ [][Next]_vars

\* ------------------------------------------------- the home page
\* The day the schedules below hold classes on: the day after the start day.
ClassDay == StartDay + 1

\* 'DD/MM/YYYY HH:mm' on the class day.
At(h, m) == <<ClassDay, h * 60 + m>>

Entry(code, start, end, type) ==
    [courseCode |-> code, start |-> start, end |-> end, type |-> type]

\* What getWeeklySchedule may return.  Every class of the morning:
SchedMorning ==
    << Entry(<<"MA101">>,      At(9, 0),  At(9, 50),  "CLASS"),
       Entry(<<" ", "PH102">>, At(10, 0), At(10, 50), "CLASS"),
       Entry(<<"SE100">>,      At(11, 0), At(11, 50), "CLASS") >>

\* Maths in the afternoon, Physics in the morning and again in the
\* afternoon, a holiday entry for the seminar:
SchedSplit ==
    << Entry(<<"MA101">>, At(14, 0), At(14, 50), "CLASS"),
       Entry(<<"PH102">>, At(9, 0),  At(9, 50),  "CLASS"),
       Entry(<<"PH102">>, At(15, 0), At(15, 50), "CLASS"),
       Entry(<<"SE100">>, At(9, 0),  At(17, 0),  "HOLIDAY") >>

\* Nothing on the class day but a holiday; Physics the day after:
SchedOff ==
    << Entry(<<"MA101">>, At(9, 0), At(17, 0), "HOLIDAY"),
       Entry(<<"PH102">>, <<ClassDay + 1, 9 * 60>>, <<ClassDay + 1, 10 * 60>>,
             "CLASS") >>

Schedules == {SchedMorning, SchedSplit, SchedOff}

Lecture(date, attendance) == [planLecDate |-> date, attendance |-> attendance]
History(list) == [lectureList |-> list]

\* What getLectureWiseAttendance may return: a record of the class day marked
\* present, or absent; only a record of the day before; two records of the
\* class day, the first not marked yet.
HistPresent == History(<< Lecture(<<ClassDay>>, "PRESENT") >>)
HistAbsent == History(<< Lecture(<<ClassDay>>, "ABSENT") >>)
HistOld == History(<< Lecture(<<StartDay>>, "PRESENT") >>)
HistUnmarked ==
    History(<< Lecture(<<ClassDay>>, ""), Lecture(<<ClassDay>>, "PRESENT") >>)

Histories == {HistPresent, HistAbsent, HistOld, HistUnmarked}

\* The page is opened at noon UTC of the start day or of the class day.
InitHome ==
    /\ tz \in TZOffsets
    /\ now \in {StartDay * DayMinutes + TickMinutes,
                ClassDay * DayMinutes + TickMinutes}
    /\ Loaded
    /\ infoIn = <<0, 0>>
    /\ infoOut = << >>

DoScheduleResolved ==
    \E call \in statusLoads : \E schedule \in Schedules :
        scheduleResolved(call, schedule)
DoScheduleRejected == \E call \in statusLoads : scheduleRejected(call)
DoLectureResolved ==
    \E call \in statusLoads : \E i \in 1..Len(call.tasks) : \E data \in Histories :
        lectureSettled(call, i, <<data>>)
DoLectureRejected ==
    \E call \in statusLoads : \E i \in 1..Len(call.tasks) :
        lectureSettled(call, i, << >>)

\* The home page from boot to the rendered today statuses.
NextToday ==
    \/ DoLoadHomeResolved
    \/ DoLoadHomeRejected
    \/ DoScheduleResolved
    \/ DoScheduleRejected
    \/ DoLectureResolved
    \/ DoLectureRejected

SpecToday == InitHome /\ [][NextToday]_vars

\* The home page with refreshes, the lecture modal and a projection, opened
\* at noon of the class day in the UTC zone; every fetch has one possible
\* answer (ReRoster, ReSchedules, ReHistories) or fails.
InitRefresh ==
    /\ tz = 0
    /\ now = ClassDay * DayMinutes + TickMinutes
    /\ Loaded
    /\ infoIn = <<0, 0>>
    /\ infoOut = << >>

ReRosters == {RosterB}
ReSchedules == {SchedMorning}
ReHistories == {HistPresent}

ReLoadHomeResolved ==
    \E call \in homeLoads : \E roster \in ReRosters : loadHomeResolved(call, roster)
ReScheduleResolved ==
    \E call \in statusLoads : \E schedule \in ReSchedules :
        scheduleResolved(call, schedule)
ReLectureResolved ==
    \E call \in statusLoads : \E i \in 1..Len(call.tasks) : \E data \in ReHistories :
        lectureSettled(call, i, <<data>>)
\* A click on a rendered course card.
DoOpenLectureModal ==
    /\ cards.kind = "cards"
    /\ \E i \in 1..Len(cards.courses) :
          /\ cards.courses[i].studentCourseCompDetails # << >>
          /\ openLectureModal(cards.courses[i].courseId,
                 cards.courses[i].studentCourseCompDetails[1].courseCompId)
DoModalResolved ==
    \E call \in modalLoads : \E data \in ReHistories : modalResolved(call, data)
DoModalRejected == \E call \in modalLoads : modalRejected(call)
DoRunProjectionHome == runProjection(<<ClassDay + 4>>, "all")

NextRefresh ==
    \/ ReLoadHomeResolved
    \/ DoLoadHomeRejected
    \/ ReScheduleResolved
    \/ DoScheduleRejected
    \/ ReLectureResolved
    \/ DoLectureRejected
    \/ refreshHome
    \/ DoOpenLectureModal
    \/ DoModalResolved
    \/ DoModalRejected
    \/ DoRunProjectionHome

SpecRefresh == InitRefresh /\ [][NextRefresh]_vars

\* attendanceInfo alone: every 0 <= present <= total <= MaxTotal.
InitInfo ==
    /\ tz = 0
    /\ now = StartDay * DayMinutes + TickMinutes
    /\ Loaded
    /\ infoIn \in {<<p, t>> : p \in 0..MaxTotal, t \in 0..MaxTotal}
    /\ infoIn[1] <= infoIn[2]
    /\ infoOut = << >>

CallAttendanceInfo ==
    /\ infoOut = << >>
    /\ infoOut' = << attendanceInfo(infoIn[1], infoIn[2]) >>
    /\ UNCHANGED <<infoIn, tz, now, ticks, homeVars, courses, exclOptions,
                   exclusions, projView, projGen, toastMsg, lastCall>>

NextInfo == CallAttendanceInfo

SpecInfo == InitInfo /\ [][NextInfo]_vars

\* ================================================== attendanceInfo
\* C1: for 0 <= present <= total with total > 0, attendanceInfo returns
\* pct = 100*present/total and status safe iff pct >= 75, warn iff
\* 65 <= pct < 75, danger iff pct < 65; for total = 0 it returns exactly
\* {pct 0, safe, canMiss 0, mustAttend 0}.
C1_PctAndStatus ==
    infoOut # << >> =>
        LET present == infoIn[1]
            total   == infoIn[2]
            r       == infoOut[1]
        IN  IF total = 0
            THEN r = [pct |-> [num |-> 0, den |-> 1], status |-> "safe",
                      canMiss |-> 0, mustAttend |-> 0]
            ELSE /\ r.pct.den > 0
                 /\ r.pct.num * total = 100 * present * r.pct.den
                 /\ (r.status = "safe"   <=> 100 * present >= 75 * total)
                 /\ (r.status = "warn"   <=> /\ 100 * present >= 65 * total
                                             /\ 100 * present < 75 * total)
                 /\ (r.status = "danger" <=> 100 * present < 65 * total)

\* C1 witness: a boundary was computed: 13/20 is exactly 65%, reported warn.
C1_Witness ==
    /\ infoOut # << >>
    /\ infoIn = <<13, 20>>
    /\ infoOut[1].status = "warn"

\* C2 as stated: whenever the reported status is safe, k = canMiss has
\* k >= 0, present/(total+k) >= 0.75 and present/(total+k+1) < 0.75.  The
\* ratio present/(total+k) is a number only when total+k > 0.
C2_CanMissAsStated ==
    (infoOut # << >> /\ infoOut[1].status = "safe") =>
        LET present == infoIn[1]
            total   == infoIn[2]
            k       == infoOut[1].canMiss
        IN  /\ k >= 0
            /\ total + k > 0
            /\ 4 * present >= 3 * (total + k)
            /\ 4 * present < 3 * (total + k + 1)

\* C2, amended: for total > 0 and status safe, k = canMiss has k >= 0,
\* present/(total+k) >= 0.75 and present/(total+k+1) < 0.75: k is the largest
\* number of further missed lectures that keeps the ratio at or above 75%;
\* for total = 0 (also reported safe) canMiss is 0.
C2_CanMissLargest ==
    (infoOut # << >> /\ infoOut[1].status = "safe") =>
        LET present == infoIn[1]
            total   == infoIn[2]
            k       == infoOut[1].canMiss
        IN  IF total = 0
            THEN k = 0
            ELSE /\ k >= 0
                 /\ total + k > 0
                 /\ 4 * present >= 3 * (total + k)
                 /\ 4 * present < 3 * (total + k + 1)

\* C2 witness: present = 27, total = 30 gives safe and canMiss = 6.
C2_Witness ==
    /\ infoOut # << >>
    /\ infoIn = <<27, 30>>
    /\ infoOut[1].status = "safe"
    /\ infoOut[1].canMiss = 6

\* C3: whenever the reported status is not safe, k = mustAttend has
\* (present+k)/(total+k) >= 0.75 and, when k > 0,
\* (present+k-1)/(total+k-1) < 0.75: k is the smallest number of
\* consecutive attended lectures that reaches 75%.
C3_MustAttendSmallest ==
    (infoOut # << >> /\ infoOut[1].status # "safe") =>
        LET present == infoIn[1]
            total   == infoIn[2]
            k       == infoOut[1].mustAttend
        IN  /\ total + k > 0
            /\ 4 * (present + k) >= 3 * (total + k)
            /\ k > 0 => /\ total + k - 1 > 0
                        /\ 4 * (present + k - 1) < 3 * (total + k - 1)

\* C3 witness: present = 20, total = 30 gives warn and mustAttend = 10.
C3_Witness ==
    /\ infoOut # << >>
    /\ infoIn = <<20, 30>>
    /\ infoOut[1].status = "warn"
    /\ infoOut[1].mustAttend = 10

\* ============================================== ledger, projection
\* The local calendar day of the current instant.
Today == LocalDay(now)

\* The last step was a runProjection that rendered a result.
Projected == lastCall[1] = "runProjection" /\ toastMsg = "" /\ projView # << >>

\* C4 as stated: the working-day count the projection reports is 5 over an
\* exact Monday-to-Friday span (today a Sunday, the target the Friday five
\* days on: start exclusive, end inclusive), and 0 over a zero-length range
\* (target = today).
C4_WorkdaysMonToFri ==
    Projected =>
        /\ (getDay(now) = 0 /\ projView[1].targetDate = <<Today + 5>>)
              => projView[1].workdays = 5
        /\ projView[1].targetDate = <<Today>> => projView[1].workdays = 0

\* C5 as stated: addExclusion accepts only a date strictly after today's
\* local calendar date, so the entry a successful addExclusion has just
\* appended is dated after today, for every UTC offset.
C5_AddedDateAfterToday ==
    (lastCall[1] = "addExclusion" /\ toastMsg = "") =>
        /\ exclusions # << >>
        /\ exclusions[Len(exclusions)].date # << >>
        /\ exclusions[Len(exclusions)].date[1] > Today

\* The courseId addExclusion reads from option opt of #exclSubject.
ScopeOf(opt) == IF opt = 0 THEN << >> ELSE <<exclOptions[opt].value[1]>>

\* No two ledger entries share (date, courseId).
NoDuplicateEntries ==
    \A i, j \in 1..Len(exclusions) :
        (exclusions[i].date = exclusions[j].date
         /\ exclusions[i].courseId = exclusions[j].courseId) => i = j

\* C6: addExclusion with a date after today appends the entry iff the ledger
\* holds no entry with the identical (date, courseId), and otherwise leaves
\* the ledger unchanged; so the same date under another scope is accepted,
\* and no two ledger entries ever share (date, courseId).
C6_AddIffNotDuplicate ==
    /\ []NoDuplicateEntries
    /\ [][\A date \in ExclDateInputs : \A opt \in 0..Len(exclOptions) :
            (addExclusion(date, opt) /\ date # << >> /\ date[1] > Today) =>
                IF \E i \in 1..Len(exclusions) :
                       /\ exclusions[i].date = date
                       /\ exclusions[i].courseId = ScopeOf(opt)
                THEN exclusions' = exclusions /\ toastMsg' # ""
                ELSE /\ Len(exclusions') = Len(exclusions) + 1
                     /\ exclusions'[Len(exclusions')].date = date
                     /\ exclusions'[Len(exclusions')].courseId = ScopeOf(opt)
         ]_vars

\* C6 witness: the ledger holds one date under two scopes, a full-day entry
\* and a course entry, and the last addExclusion succeeded.
C6_Witness ==
    /\ lastCall[1] = "addExclusion"
    /\ toastMsg = ""
    /\ Len(exclusions) = 2
    /\ exclusions[1].date = exclusions[2].date
    /\ exclusions[1].courseId = << >>
    /\ exclusions[2].courseId = <<1>>

\* C7 as stated: removeExclusion(i) with i < 0 or i >= length leaves the
\* ledger unchanged.
C7_RemoveOutOfRangeNoChange ==
    [][(/\ lastCall'[1] = "removeExclusion"
        /\ (lastCall'[2] < 0 \/ lastCall'[2] >= Len(exclusions)))
       => exclusions' = exclusions]_vars

\* The list without its entry at 0-based index i.
Without(list, i) ==
    [j \in 1..(Len(list) - 1) |-> IF j <= i THEN list[j] ELSE list[j + 1]]

\* C8: the ledger lists its entries in the order they were added: a
\* successful addExclusion puts the new entry last and keeps the others in
\* place, removeExclusion(i) with 0 <= i < length removes exactly the entry
\* listed with index i and keeps every other entry in its relative order, and
\* no other step changes the ledger.
C8_InsertionOrder ==
    [][/\ lastCall'[1] = "addExclusion" =>
            \/ exclusions' = exclusions
            \/ /\ Len(exclusions') = Len(exclusions) + 1
               /\ SubSeq(exclusions', 1, Len(exclusions)) = exclusions
       /\ (/\ lastCall'[1] = "removeExclusion"
           /\ lastCall'[2] >= 0
           /\ lastCall'[2] < Len(exclusions)) =>
            /\ renderExclusions(exclusions)[lastCall'[2] + 1].remove = lastCall'[2]
            /\ exclusions' = Without(exclusions, lastCall'[2])
       /\ lastCall'[1] \notin {"addExclusion", "removeExclusion"} =>
            exclusions' = exclusions
      ]_vars

\* C8 witness: removeExclusion(0) has just removed the first of two
\* entries (index 0 with one entry left), and the survivor is a course entry.
C8_Witness ==
    /\ lastCall[1] = "removeExclusion"
    /\ lastCall[2] = 0
    /\ Len(exclusions) = 1
    /\ exclusions[1].courseId # << >>

\* C9 as stated: runProjection renders a result only for a target date
\* strictly after today's local calendar date.
C9_TargetAfterToday ==
    Projected =>
        /\ projView[1].targetDate # << >>
        /\ projView[1].targetDate[1] > Today

\* C10: a projection run in mode "none" lists every course that has an
\* attendance component with projected present and total equal to that
\* component's current counts, and a projected percentage equal to the
\* current percentage, whatever the target date and the ledger.
C10_NoneKeepsCounts ==
    (Projected /\ lastCall[2] = "none") =>
        LET v == projView[1] IN
        /\ \A j \in 1..Len(courses) :
              courses[j].studentCourseCompDetails # << >> =>
                 \E i \in 1..Len(v.results) : v.results[i].course = courses[j]
        /\ Len(v.rows) = Len(v.results)
        /\ \A i \in 1..Len(v.results) :
              LET r    == v.results[i]
                  comp == r.course.studentCourseCompDetails[1]
              IN  /\ r.projPresent = comp.presentLecture
                  /\ r.projTotal = comp.totalLecture
                  /\ v.rows[i].projPct.num * v.rows[i].curPct.den
                        = v.rows[i].curPct.num * v.rows[i].projPct.den

\* C10 witness: a mode "none" projection over a range that has working days
\* and an exclusion in it, for a roster of two courses with lectures.
C10_Witness ==
    /\ Projected
    /\ lastCall[2] = "none"
    /\ Len(projView[1].results) = 2
    /\ projView[1].workdays > 0
    /\ exclusions # << >>
    /\ exclusions[1].date[1] <= projView[1].targetDate[1]

\* The number of Monday-to-Friday calendar days among lo..hi.
WorkingDaysIn(lo, hi) ==
    Cardinality({d \in lo..hi : (d + 4) % 7 \notin {0, 6}})

\* The last step was a runProjection in mode "all" that rendered a result.
ProjectedAll == Projected /\ lastCall[2] = "all"

\* C11 as stated: in mode "all" with an empty ledger, every course's
\* projected total and projected present both grow by exactly the number of
\* Monday-Friday dates from the day after today through the target date
\* inclusive, for every UTC offset, and that number is the workdays figure
\* shown with the results.
C11_UniformAddsWorkingDays ==
    (ProjectedAll /\ exclusions = << >>) =>
        LET v == projView[1]
            W == WorkingDaysIn(Today + 1, v.targetDate[1])
        IN  /\ v.workdays = W
            /\ \A i \in 1..Len(v.results) :
                  /\ v.results[i].projTotal = v.results[i].curTotal + W
                  /\ v.results[i].projPresent = v.results[i].curPresent + W

\* C12 as stated: in mode "all", with a ledger of exactly one full-day entry
\* dated after today and on or before the target date, every course's
\* projected present is 1 less, and its projected total the same, as in the
\* projection of the same roster to the same target with an empty ledger.
C12_FullDayExclusionCostsOne ==
    (/\ ProjectedAll
     /\ Len(exclusions) = 1
     /\ exclusions[1].courseId = << >>
     /\ exclusions[1].date[1] > Today
     /\ exclusions[1].date[1] <= projView[1].targetDate[1]) =>
        LET v    == projView[1]
            base == ProjectAll(courses, "all", StartOfToday,
                               ParseDateOnly(v.targetDate), << >>)
        IN  /\ Len(v.results) = Len(base)
            /\ \A i \in 1..Len(base) :
                  /\ v.results[i].projPresent = base[i].projPresent - 1
                  /\ v.results[i].projTotal = base[i].projTotal

\* The working days of lo..hi that the ledger excludes for course id: those
\* whose date has a full-day entry (courseId null) or an entry of that course.
ExcludedWorkingDays(ledger, id, lo, hi) ==
    Cardinality({d \in lo..hi :
        /\ (d + 4) % 7 \notin {0, 6}
        /\ \E k \in 1..Len(ledger) :
              /\ ledger[k].date = <<d>>
              /\ (ledger[k].courseId = << >> \/ ledger[k].courseId = <<id>>)})

\* C13 as stated: in mode "all", for every course c, projected total =
\* current total + W and projected present = current present + W - X, where
\* W is the number of working days from the day after today through the
\* target date and X is the number of those working days whose date has a
\* full-day entry or an entry of course c in the ledger (a date under both
\* scopes counted once).
C13_UniformTotals ==
    ProjectedAll =>
        LET v == projView[1]
            W == WorkingDaysIn(Today + 1, v.targetDate[1])
        IN  \A i \in 1..Len(v.results) :
               LET r == v.results[i]
                   X == ExcludedWorkingDays(exclusions, r.course.courseId,
                                            Today + 1, v.targetDate[1])
               IN  /\ r.projTotal = r.curTotal + W
                   /\ r.projPresent = r.curPresent + W - X

\* The courses of the roster that have an attendance component, in order.
WithComponent(cs) == SelectSeq(cs, LAMBDA c : c.studentCourseCompDetails # << >>)

\* The rows whose projected status is not safe, in order.
AtRisk(rows) == SelectSeq(rows, LAMBDA row : row.projStatus # "safe")

\* C14: the projection result list holds exactly the courses that have an
\* attendance component, in roster order, one rendered row per result, and
\* the risk list is exactly the sub-sequence of the rows whose projected
\* status is not safe, in the same order.
C14_ResultsAndRiskList ==
    Projected =>
        LET v    == projView[1]
            with == WithComponent(courses)
            risk == AtRisk(v.rows)
        IN  /\ Len(v.results) = Len(with)
            /\ \A i \in 1..Len(with) : v.results[i].course = with[i]
            /\ Len(v.rows) = Len(v.results)
            /\ \A i \in 1..Len(v.rows) :
                  /\ v.rows[i].name = v.results[i].course.courseName
                  /\ v.rows[i].projStatus =
                        attendanceInfo(v.results[i].projPresent,
                                       v.results[i].projTotal).status
            /\ Len(v.dangerItems) = Len(risk)
            /\ \A i \in 1..Len(risk) :
                  /\ v.dangerItems[i].name = risk[i].name
                  /\ v.dangerItems[i].pct = risk[i].projPct

\* C14 witness: a projection of a roster whose first course has no component
\* (so it is omitted) and whose other course is projected below 65%.
C14_Witness ==
    /\ Projected
    /\ Len(courses) = 2
    /\ courses[1].studentCourseCompDetails = << >>
    /\ Len(projView[1].results) = 1
    /\ Len(projView[1].dangerItems) = 1
    /\ projView[1].rows[1].projStatus = "danger"

\* ================================================= today statuses
\* The instant a 'DD/MM/YYYY HH:mm' text names in the local zone.
InstantOf(text) == text[1] * DayMinutes + text[2] - tz

\* A course code without its blanks.
Bare(code) == SelectSeq(code, LAMBDA piece : piece # " ")

\* Schedule entry e is a class of course c on the local day of instant t.
ClassOn(e, c, t) ==
    /\ e.type # "HOLIDAY"
    /\ e.start # << >>
    /\ e.start[1] = LocalDay(t)
    /\ Bare(e.courseCode) = Bare(c.courseCode)

\* Course i of the call has a class today per the schedule the call received.
HasClassToday(call, i) ==
    /\ call.schedule # << >>
    /\ \E k \in 1..Len(call.schedule[1]) :
          ClassOn(call.schedule[1][k], call.courses[i], call.today)

\* C15 as stated: in a today-status resolution, a course that has a
\* non-holiday schedule entry for today, matched by trimmed course code, whose
\* end instant is later than now (the instant the resolution started) is
\* marked SCHEDULED, and no lecture history is requested for it.
C15_UpcomingIsScheduled ==
    \A call \in statusLoads : \A i \in 1..Len(call.courses) :
        (/\ call.schedule # << >>
         /\ \E k \in 1..Len(call.schedule[1]) :
               LET e == call.schedule[1][k] IN
               /\ ClassOn(e, call.courses[i], call.today)
               /\ e.end # << >>
               /\ InstantOf(e.end) > call.today)
        => /\ call.tasks # << >>
           /\ call.tasks[i].status = "SCHEDULED"
           /\ call.tasks[i].fetched = << >>

\* Response data holds a record dated on the local day of t marked PRESENT
\* or ABSENT.
YieldsMark(data, t) ==
    /\ data # << >>
    /\ \E k \in 1..Len(data[1].lectureList) :
          /\ data[1].lectureList[k].planLecDate = <<LocalDay(t)>>
          /\ data[1].lectureList[k].attendance \in {"PRESENT", "ABSENT"}

FirstOfDay(data, t) ==
    IF data = << >> THEN << >>
    ELSE LET list  == data[1].lectureList
             dated == {k \in 1..Len(list) : list[k].planLecDate = <<LocalDay(t)>>}
         IN  IF dated = {} THEN << >>
             ELSE << list[CHOOSE k \in dated : \A j \in dated : k <= j] >>

\* The fetch succeeded and its record for today is marked PRESENT or ABSENT.
Definitive(data, t) ==
    /\ FirstOfDay(data, t) # << >>
    /\ FirstOfDay(data, t)[1].attendance \in {"PRESENT", "ABSENT"}

RefreshDone(g) ==
    lastCall[1] = "refreshHome" /\ lastCall[2] = "done" /\ lastCall[3] = g

\* C17 as stated: once a refreshHome call has completed, nothing derived from
\* data requested before that call remains: not the roster, not a
\* lecture-cache entry, not the displayed projection result.
C17_RefreshDiscardsAll ==
    \A g \in 1..MaxRefresh :
        RefreshDone(g) =>
            /\ courses # << >> => coursesGen >= g
            /\ \A e \in lectureCache : e.gen >= g
            /\ projView # << >> => projGen >= g

\* C20 as stated: a fetch started before a refresh never writes its result
\* into the shared state after that refresh has begun.  The lecture cache and
\* the roster are emptied when a refresh begins, so whatever they hold was
\* written since the latest refresh began and must have been requested since
\* then; the course grid (with its status map) must not have been written at
\* a refresh count later than the one its data was requested at.
C20_NoStaleWrites ==
    /\ \A e \in lectureCache : e.gen = refreshes
    /\ courses # << >> => coursesGen = refreshes
    /\ cards.gen = cards.at

\* =================================================== lecture cache
\* The lecture-history requests the today-status calls in loads have made:
\* <<refresh count of the call, <<courseId, courseCompId>>>>.
StatusRequests(loads) ==
    UNION {UNION {{<<call.gen, <<call.courses[i].courseId, call.tasks[i].fetched[k]>>>> :
                      k \in 1..Len(call.tasks[i].fetched)} :
                  i \in 1..Len(call.tasks)} :
           call \in loads}

\* The keys the cache holds a history for.
CachedKeys(cache) == {e.key : e \in cache}

\* The step is the start of a refreshHome call.
RefreshStarts == refreshes' = refreshes + 1

\* C21 as stated: once a history is stored under a key, no step before the
\* next refreshHome sends a lecture-history fetch for that key (neither
\* openLectureModal nor the today-status resolution), and no step other than
\* refreshHome removes an entry from the cache.
C21_CachedKeyNeverRefetched ==
    [][~RefreshStarts =>
          /\ CachedKeys(lectureCache) \subseteq CachedKeys(lectureCache')
          /\ \A key \in CachedKeys(lectureCache) :
                /\ \A call \in modalLoads' \ modalLoads : call.key # key
                /\ \A r \in StatusRequests(statusLoads') \ StatusRequests(statusLoads) :
                      r[2] # key
      ]_vars

\* ================================================ exclusion scope
\* The ledger without the entries added for a course other than id: what
\* is left are the entries with no courseId and those of course id.
ScopedTo(ledger, id) ==
    SelectSeq(ledger, LAMBDA e : e.courseId = << >> \/ e.courseId = <<id>>)

\* C22 as stated: an exclusion added with a courseId, 0 included, affects
\* only that course: in a mode "all" projection every course's result is the
\* one the same run would give with the entries of all other courses taken
\* out of the ledger.
C22_CourseExclusionIsLocal ==
    ProjectedAll =>
        LET v == projView[1] IN
        \A i \in 1..Len(v.results) :
            v.results[i] =
                ProjectCourse(v.results[i].course, "all", StartOfToday,
                              ParseDateOnly(v.targetDate),
                              ScopedTo(exclusions, v.results[i].course.courseId))

====
